---- MODULE Spec2Model ----
(***************************************************************************)
(* wav_player: a chunked WAV decoder that streams volume-scaled PCM to a   *)
(* caller-supplied sink callback (wav_player.c, wav_player.h).             *)
(*                                                                         *)
(* One call of wav_player_play_file or wav_player_get_info is in progress  *)
(* at a time (the code is synchronous); pc is the position inside it.      *)
(* The volume operations run between calls and from inside the sink        *)
(* callback, the only point where play_file hands control to the caller.   *)
(***************************************************************************)
EXTENDS Integers, Sequences, FiniteSets

\* ------------------------------------------------------------ constants

\* wav_player.c:7 (redefines the 4096 of wav_player.h:21 for this file)
BUFFER_SIZE == 1024
\* wav_player.h:19,20
MIN_VOLUME == 0
MAX_VOLUME == 100
\* wav_player.c:9, the initial value of current_volume
DEFAULT_VOLUME == 30
\* wav_player.c:93,95, the size of the header prefix
HEADER_SIZE == 44
\* esp_err_t values named by wav_player.h:41-43
ESP_OK == 0
ESP_FAIL == -1
ESP_ERR_INVALID_ARG == 258
\* another non-zero esp_err_t, for a sink that fails with its own code
\* (the callback returns esp_err_t, wav_player.h:30)
ESP_ERR_TIMEOUT == 263

\* the range of the C type int (32 bits)
INT_MAX == 2147483647
INT_MIN == -2147483647 - 1

\* ------------------------------------------------------------ bounds

\* the longest payload holds this many full chunks (plus a short tail)
MaxFullChunks == 2

\* ------------------------------------------------------------ arithmetic

RECURSIVE Pow2(_)
Pow2(n) == IF n = 0 THEN 1 ELSE 2 * Pow2(n - 1)

\* floor(log2(t)) for t >= 1, and -1 for t = 0
RECURSIVE Log2(_)
Log2(t) == IF t = 0 THEN -1 ELSE 1 + Log2(t \div 2)

\* a 16-bit pattern 0..65535 read as int16_t, and back
ToInt16(u) == IF u >= 32768 THEN u - 65536 ELSE u
FromInt16(s) == IF s < 0 THEN s + 65536 ELSE s

\* uint32_t values do not fit a 32-bit signed integer: a uint32_t is kept as
\* its two 16-bit halves
U32(b0, b1, b2, b3) == [hi |-> b2 + 256 * b3, lo |-> b0 + 256 * b1]
U32Of(n) == [hi |-> n \div 65536, lo |-> n % 65536]
U32Less(x, y) == x.hi < y.hi \/ (x.hi = y.hi /\ x.lo < y.lo)

\* ------------------------------------------------------------ samples

\* convert_24_to_16 taking p[0] as the most significant byte
convert_24_to_16_BigEndian(b0, b1, b2) ==
    LET sample_24 == b0 * 65536 + b1 * 256 + b2
        extended  == IF sample_24 >= 8388608 THEN sample_24 - 16777216
                                             ELSE sample_24
        shifted   == IF extended >= 0 THEN extended \div 256
                                      ELSE -(((-extended) + 255) \div 256)
    IN  ToInt16(shifted % 65536)

\* convert_24_to_16: the three bytes at p[0..2], little-endian, sign-extended
\* from bit 23 and shifted right by 8 (arithmetic), cast to int16_t
convert_24_to_16(b0, b1, b2) ==
    LET sample_24 == b2 * 65536 + b1 * 256 + b0
        extended  == IF sample_24 >= 8388608 THEN sample_24 - 16777216 ELSE sample_24
        shifted   == IF extended >= 0 THEN extended \div 256
                                      ELSE -(((-extended) + 255) \div 256)
    IN  ToInt16(shifted % 65536)

\* volume / 100.0f as an IEEE single: mantissa m in [2^23, 2^24) and exponent
\* e with value m * 2^-e, rounded to nearest even; volume in 1..100
RECURSIVE MultiplierShift(_, _)
MultiplierShift(volume, k) ==
    IF volume * Pow2(k) >= 100 THEN k ELSE MultiplierShift(volume, k + 1)

VolumeMultiplier(volume) ==
    LET k == MultiplierShift(volume, 0)
        n == volume * Pow2(23 + k)
        q == n \div 100
        r == n % 100
        m == IF r > 50 \/ (r = 50 /\ q % 2 = 1) THEN q + 1 ELSE q
    IN  [m |-> m, e |-> 23 + k, k |-> k]

\* |sample| * multiplier as an IEEE single product (round to nearest even),
\* then truncated toward zero by the cast to int16_t.  The 40-bit product is
\* formed in 12-bit limbs.
ScaleMagnitude(a, mul) ==
    LET mh   == mul.m \div 4096
        ml   == mul.m % 4096
        lowp == a * ml
        c    == a * mh + (lowp \div 4096)
        bl   == lowp % 4096
        d    == Pow2(mul.e - 12)
        t    == c \div d
        frac == (c % d) * 4096 + bl
        ex   == mul.k + Log2(t) - 1
    IN  IF frac # 0 /\ ex >= 0 /\ Pow2(mul.e) - frac <= Pow2(ex) THEN t + 1 ELSE t

ApplyVolumeWith(sample, volume, mul) ==
    IF volume = 0 \/ sample = 0 THEN 0
    ELSE IF sample < 0 THEN -ScaleMagnitude(-sample, mul)
    ELSE ScaleMagnitude(sample, mul)

\* apply_volume with volume / 100 taken in int arithmetic
apply_volume_IntegerRatio(sample, volume) == sample * (volume \div 100)

\* apply_volume(sample, volume), volume in 0..100
apply_volume(sample, volume) ==
    ApplyVolumeWith(sample, volume,
                    IF volume = 0 THEN [m |-> 0, e |-> 23, k |-> 0]
                                  ELSE VolumeMultiplier(volume))

\* ------------------------------------------------------------ files

\* A file on the storage: whether the path can be opened, its size in bytes,
\* the bytes of its first 44 (or fewer) and the rule giving the payload byte
\* at each later offset.
FileByte(f, off) ==
    IF off < Len(f.head) THEN f.head[off + 1]
    ELSE (f.seed + f.step * (off - HEADER_SIZE)) % 256

\* the canonical 44-byte prefix carrying the five fields at their offsets
HeaderBytes(ch, rate, bps, align, dsize) ==
    [o \in 1..HEADER_SIZE |->
        CASE o - 1 = 22 -> ch % 256
          [] o - 1 = 23 -> ch \div 256
          [] o - 1 = 24 -> rate.lo % 256
          [] o - 1 = 25 -> rate.lo \div 256
          [] o - 1 = 26 -> rate.hi % 256
          [] o - 1 = 27 -> rate.hi \div 256
          [] o - 1 = 32 -> align % 256
          [] o - 1 = 33 -> align \div 256
          [] o - 1 = 34 -> bps % 256
          [] o - 1 = 35 -> bps \div 256
          [] o - 1 = 40 -> dsize.lo % 256
          [] o - 1 = 41 -> dsize.lo \div 256
          [] o - 1 = 42 -> dsize.hi % 256
          [] o - 1 = 43 -> dsize.hi \div 256
          [] OTHER -> 0]

WavFile(ch, rate, bps, align, paylen, seed, step) ==
    [exists |-> TRUE, size |-> HEADER_SIZE + paylen,
     head |-> HeaderBytes(ch, U32Of(rate), bps, align, U32Of(paylen)),
     seed |-> seed, step |-> step]

NoFile == [exists |-> FALSE, size |-> 0, head |-> <<>>, seed |-> 0, step |-> 0]

ShortFile(n) ==
    [exists |-> TRUE, size |-> n,
     head |-> SubSeq(HeaderBytes(1, U32Of(8000), 16, 2, U32Of(0)), 1, n),
     seed |-> 0, step |-> 0]

PayloadLens ==
    {k * BUFFER_SIZE + d : k \in 0..MaxFullChunks, d \in {0, 1, 3}}
        \cup {BUFFER_SIZE - 1}

ValidFiles ==
    {WavFile(1, 8000, 16, 2, n, 3, 37) : n \in PayloadLens}
        \cup {WavFile(2, 48000, 24, 6, n, 129, 5) : n \in PayloadLens}

BadHeaderFiles ==
    { WavFile(3, 44100, 16, 6, 4, 1, 1),     \* channels out of range
      WavFile(0, 44100, 16, 0, 4, 1, 1),
      WavFile(1, 44100, 8, 1, 4, 1, 1),      \* bits per sample
      WavFile(1, 7999, 16, 2, 4, 1, 1),      \* sample rate
      WavFile(2, 48001, 24, 6, 4, 1, 1),
      WavFile(2, 44100, 16, 2, 4, 1, 1) }    \* block align

ShortFiles == {ShortFile(n) : n \in {0, 10, HEADER_SIZE - 1}}

Files == {NoFile} \cup ShortFiles \cup BadHeaderFiles \cup ValidFiles

\* ------------------------------------------------------------ header

ZeroHeader ==
    [num_channels |-> 0, sample_rate |-> U32Of(0), bits_per_sample |-> 0,
     data_size |-> U32Of(0), block_align |-> 0]

\* read_wav_header taking bits_per_sample and block_align from each other's
\* offset
read_wav_header_SwappedFields(f, p, h) ==
    LET n == IF f.size - p >= HEADER_SIZE THEN HEADER_SIZE
             ELSE IF f.size > p THEN f.size - p ELSE 0
        b(o) == FileByte(f, p + o)
    IN  IF n # HEADER_SIZE
        THEN [ok |-> FALSE, n |-> n, header |-> h]
        ELSE [ok |-> TRUE, n |-> n,
              header |->
                [num_channels    |-> b(22) + 256 * b(23),
                 sample_rate     |-> U32(b(24), b(25), b(26), b(27)),
                 bits_per_sample |-> b(32) + 256 * b(33),
                 block_align     |-> b(34) + 256 * b(35),
                 data_size       |-> U32(b(40), b(41), b(42), b(43))]]

\* read_wav_header: fread of 44 bytes at offset p of f; n is the number of
\* bytes the fread consumed, ok whether it returned 44, header the fields
\* stored (h unchanged when the read is short)
read_wav_header(f, p, h) ==
    LET n == IF f.size - p >= HEADER_SIZE THEN HEADER_SIZE
             ELSE IF f.size > p THEN f.size - p ELSE 0
        b(o) == FileByte(f, p + o)
    IN  IF n # HEADER_SIZE
        THEN [ok |-> FALSE, n |-> n, header |-> h]
        ELSE [ok |-> TRUE, n |-> n,
              header |->
                [num_channels    |-> b(22) + 256 * b(23),
                 sample_rate     |-> U32(b(24), b(25), b(26), b(27)),
                 bits_per_sample |-> b(34) + 256 * b(35),
                 block_align     |-> b(32) + 256 * b(33),
                 data_size       |-> U32(b(40), b(41), b(42), b(43))]]

\* is_valid_wav_header without the block-align rule (lines 75-78)
is_valid_wav_header_NoAlign(h) ==
    IF h.num_channels < 1 \/ h.num_channels > 2 THEN FALSE
    ELSE IF h.bits_per_sample # 16 /\ h.bits_per_sample # 24 THEN FALSE
    ELSE ~(U32Less(h.sample_rate, U32Of(8000))
               \/ U32Less(U32Of(48000), h.sample_rate))

\* the four checks in the order of the code; the first that fails returns false
is_valid_wav_header(h) ==
    IF h.num_channels < 1 \/ h.num_channels > 2 THEN FALSE
    ELSE IF h.bits_per_sample # 16 /\ h.bits_per_sample # 24 THEN FALSE
    ELSE IF U32Less(h.sample_rate, U32Of(8000)) \/ U32Less(U32Of(48000), h.sample_rate)
         THEN FALSE
    ELSE LET expected_block_align ==
                 (h.num_channels * (h.bits_per_sample \div 8)) % 65536
         IN  h.block_align = expected_block_align

\* ------------------------------------------------------------ state

VARIABLES
    current_volume,    \* static int current_volume
    volume_ret,        \* the value wav_player_get_volume last returned
    pc,                \* position inside the call in progress, or "idle"/"done"
    fn,                \* which entry point is running: "play", "info", "none"
    file,              \* the file at the filepath argument
    write_cb,          \* "NULL" or "sink"
    fp,                \* the FILE*: "none", "open", "closed"
    pos,               \* the stream position of fp
    header,            \* the wav_header_t the call fills
    buffer_ptr,        \* "unset", "NULL", "live", "freed"
    processed_ptr,
    buffer,            \* contents of the two BUFFER_SIZE blocks
    processed_buffer,
    bytes_read,
    ret,               \* the local ret; the value returned once pc = "done"
    exit,              \* which return statement was taken
    stats,             \* what the call did to its collaborators so far
    calls,             \* the write_cb invocations: [off, len] each
    cb_rets,           \* what each invocation returned
    vol_used,          \* current_volume as read by the last transform
    prev_kind,         \* how the caller's previous play_file call ended
    prev_ret,          \* and the value it returned
    probe,             \* a direct call of one of the file's functions
    buffer_reads       \* the indices of buffer read to transform the chunk
                       \* that is at the sink

vars == <<current_volume, volume_ret, pc, fn, file, write_cb, fp, pos, header,
          buffer_ptr, processed_ptr, buffer, processed_buffer, bytes_read,
          ret, exit, stats, calls, cb_rets, vol_used, prev_kind, prev_ret,
          probe, buffer_reads>>

callVars == <<pc, fn, file, write_cb, fp, pos, header, buffer_ptr,
              processed_ptr, buffer, processed_buffer, bytes_read, ret, exit,
              stats, calls, cb_rets, vol_used, prev_kind, prev_ret, probe,
              buffer_reads>>

\* get_volume has not been called yet
NoValue == MIN_VOLUME - 1

Index == 0..(BUFFER_SIZE - 1)
Blank == [i \in Index |-> 0]

ZeroStats ==
    [fopens |-> 0, fcloses |-> 0, hdr_reads |-> 0, data_reads |-> 0,
     mallocs |-> 0, frees_buffer |-> 0, frees_processed |-> 0]

\* malloc does not initialise a block: each of its bytes is indeterminate
\* until the program stores into it.  Indeterminate marks such a byte; it
\* stands for every value 0..255 (zeroed pages, an allocator's fill byte, the
\* bytes of a block freed earlier, allocator pointers), so a state holding it
\* stands for every state that has some byte in its place.
Indeterminate == 256

Uninitialised == [i \in Index |-> Indeterminate]

\* the bytes a block may hold in the program, given what the model holds
Represents(block, bytes) ==
    \A i \in Index :
        IF block[i] = Indeterminate THEN bytes[i] \in 0..255
                                    ELSE bytes[i] = block[i]

\* what a sink may return
SinkResults == {ESP_OK, ESP_FAIL, ESP_ERR_TIMEOUT}

\* no direct call is under way
NoProbe == [op |-> "none", done |-> TRUE]

\* the state of the player before its first call
InitPlayer ==
    /\ current_volume = DEFAULT_VOLUME
    /\ volume_ret = NoValue
    /\ pc = "idle"
    /\ fn = "none"
    /\ file = NoFile
    /\ write_cb = "NULL"
    /\ fp = "none"
    /\ pos = 0
    /\ header = ZeroHeader
    /\ buffer_ptr = "unset"
    /\ processed_ptr = "unset"
    /\ buffer = Blank
    /\ processed_buffer = Blank
    /\ bytes_read = 0
    /\ ret = ESP_OK
    /\ exit = "none"
    /\ stats = ZeroStats
    /\ calls = <<>>
    /\ cb_rets = <<>>
    /\ vol_used = DEFAULT_VOLUME
    /\ prev_kind = "none"
    /\ prev_ret = ESP_OK
    /\ buffer_reads = {}

Init == InitPlayer /\ probe = NoProbe

\* ------------------------------------------------------------ volume

\* ClampVolume with the upper clamp (line 189) left out
ClampVolumeNoUpper(volume) ==
    IF volume < MIN_VOLUME THEN MIN_VOLUME ELSE volume

\* the two clamps of wav_player_set_volume
ClampVolume(volume) ==
    LET v1 == IF volume < MIN_VOLUME THEN MIN_VOLUME ELSE volume
    IN  IF v1 > MAX_VOLUME THEN MAX_VOLUME ELSE v1

\* The volume functions are called between two calls of the player or from
\* inside the sink callback.
VolumeCallable == pc \in {"idle", "write_cb"}

wav_player_set_volume(volume) ==
    /\ VolumeCallable
    /\ current_volume' = ClampVolume(volume)
    /\ UNCHANGED <<volume_ret, callVars>>

\* current_volume + amount in int arithmetic.  A sum outside the int range is
\* signed overflow, undefined in C: the build either wraps it (two's
\* complement add) or keeps the wide sum, which compares like INT_MAX or
\* INT_MIN in the clamps that follow.
IntAdd(a, b) ==
    IF b > 0 /\ a > INT_MAX - b
        THEN {(a - INT_MAX - 1) + (b - INT_MAX - 1), INT_MAX}
    ELSE IF b < 0 /\ a < INT_MIN - b
        THEN {(a + INT_MAX + 1) + (b + INT_MAX + 1), INT_MIN}
    ELSE {a + b}

\* current_volume - amount in int arithmetic, likewise
IntSub(a, b) ==
    IF b < 0 /\ a > INT_MAX + b
        THEN {(a - INT_MAX - 1) - (b + INT_MAX + 1), INT_MAX}
    ELSE IF b > 0 /\ a < INT_MIN + b
        THEN {(a + INT_MAX + 1) - (b - INT_MAX - 1), INT_MIN}
    ELSE {a - b}

wav_player_increase_volume(amount) ==
    \E sum \in IntAdd(current_volume, amount) : wav_player_set_volume(sum)

wav_player_decrease_volume(amount) ==
    \E diff \in IntSub(current_volume, amount) : wav_player_set_volume(diff)

wav_player_get_volume ==
    /\ VolumeCallable
    /\ volume_ret' = current_volume
    /\ UNCHANGED <<current_volume, callVars>>

\* ------------------------------------------------------------ stream

\* fread(ptr, 1, want, fp): the number of bytes it returns at position p
FreadCount(f, p, want) ==
    IF f.size - p >= want THEN want
    ELSE IF f.size > p THEN f.size - p ELSE 0

\* the block after fread stored n bytes from position p at its start
FreadInto(block, f, p, n) ==
    [i \in Index |-> IF i < n THEN FileByte(f, p + i) ELSE block[i]]

\* apply_volume tabulated at the levels the volume takes while a file is
\* played (DEFAULT_VOLUME and what VolumeArgs lead to); any other level is
\* computed directly
TableVolumes == {MIN_VOLUME, DEFAULT_VOLUME, 70, MAX_VOLUME}

ScaleTable ==
    [volume \in TableVolumes |->
        [sample \in (-32768)..32767 |-> apply_volume(sample, volume)]]

Scaled(sample, volume) ==
    IF volume \in TableVolumes THEN ScaleTable[volume][sample]
    ELSE apply_volume(sample, volume)

\* the 16-bit branch: sample_count = bytes_read / 2 samples of buffer are
\* scaled into processed (int16_t, little-endian); the rest of processed is
\* left as it was
Transform16(buf, processed, n, volume) ==
    [i \in Index |->
        IF i \div 2 < n \div 2
        THEN LET j == i \div 2
                 s == FromInt16(Scaled(
                          ToInt16(buf[2 * j] + 256 * buf[2 * j + 1]), volume))
             IN  IF i % 2 = 0 THEN s % 256 ELSE s \div 256
        ELSE processed[i]]

\* the indices of buffer the 16-bit loop reads: samples[0..sample_count - 1]
Reads16(n) == 0..(2 * (n \div 2) - 1)

\* the indices of buffer the 24-bit loop reads for a chunk of n bytes.  As
\* written, i runs over 0, 3, 6, ... while i < n and
\* convert_24_to_16(&buffer[i]) reads buffer[i], buffer[i + 1],
\* buffer[i + 2], also past the chunk and past the block (undefined).  The
\* results are dropped, so a build may keep the loop (gcc -O0) or remove it
\* and read nothing (gcc -Og, -O1, -Os, -O2, -O3): loop_kept says which.
Reads24(n, loop_kept) ==
    IF loop_kept
    THEN {i + d : i \in {k \in 0..(n - 1) : k % 3 = 0}, d \in 0..2}
    ELSE {}

TransformReads(h, n, loop_kept) ==
    IF h.bits_per_sample = 16 THEN Reads16(n)
    ELSE IF h.bits_per_sample = 24 THEN Reads24(n, loop_kept)
    ELSE {}

\* the 24-bit branch: every sample is converted and scaled into a local that
\* is dropped (wav_player.c:167-170); processed is not written
Transform24(buf, processed, n, volume) == processed

Transform(h, buf, processed, n, volume) ==
    IF h.bits_per_sample = 16 THEN Transform16(buf, processed, n, volume)
    ELSE IF h.bits_per_sample = 24 THEN Transform24(buf, processed, n, volume)
    ELSE processed

\* ------------------------------------------------------------ calls

Bump(field) == [stats EXCEPT ![field] = @ + 1]

\* Fclose with the fclose call forgotten
FcloseMissing(st) == st

\* fclose(fp)
Fclose(st) == [st EXCEPT !.fcloses = @ + 1]

\* free(p): counted when p is a live block, nothing for free(NULL)
Free(st, field, live) == [st EXCEPT ![field] = @ + (IF live THEN 1 ELSE 0)]

\* HeaderRejected with && written for ||
HeaderRejectedAnd(r) == ~r.ok /\ ~is_valid_wav_header(r.header)

\* the condition of line 135, r being what read_wav_header did
HeaderRejected(r) == ~r.ok \/ ~is_valid_wav_header(r.header)

\* ArgErrorResult with the NULL sink reported like every other failure
ArgErrorResultAsFail == ESP_FAIL

\* the value of line 125
ArgErrorResult == ESP_ERR_INVALID_ARG

\* return from the call: the blocks are gone, pc = "done"
Finish(r, how, st, f) ==
    /\ pc' = "done"
    /\ ret' = r
    /\ exit' = how
    /\ stats' = st
    /\ fp' = f
    /\ buffer' = Blank
    /\ processed_buffer' = Blank

\* PlayFile with fopen moved before the argument check, the early return
\* leaving the file open
PlayFileOpenFirst(f, cb) ==
    /\ pc = "idle"
    /\ fn' = "play"
    /\ file' = f
    /\ write_cb' = cb
    /\ IF ~f.exists
       THEN Finish(ESP_FAIL, "open", stats, fp)
       ELSE IF cb = "NULL"
       THEN Finish(ArgErrorResult, "arg", Bump("fopens"), "open")
       ELSE /\ pc' = "header"
            /\ fp' = "open"
            /\ stats' = Bump("fopens")
            /\ UNCHANGED <<ret, exit, buffer, processed_buffer>>
    /\ UNCHANGED <<probe, buffer_reads, current_volume, volume_ret, pos, header, buffer_ptr,
                   processed_ptr, bytes_read, calls, cb_rets, vol_used,
                   prev_kind, prev_ret>>

\* wav_player_play_file, lines 123-132: the argument check and fopen
PlayFile(f, cb) ==
    /\ pc = "idle"
    /\ fn' = "play"
    /\ file' = f
    /\ write_cb' = cb
    /\ IF cb = "NULL"
       THEN Finish(ArgErrorResult, "arg", stats, fp)
       ELSE IF ~f.exists
       THEN Finish(ESP_FAIL, "open", stats, fp)
       ELSE /\ pc' = "header"
            /\ fp' = "open"
            /\ stats' = Bump("fopens")
            /\ UNCHANGED <<ret, exit, buffer, processed_buffer>>
    /\ UNCHANGED <<probe, buffer_reads, current_volume, volume_ret, pos, header, buffer_ptr,
                   processed_ptr, bytes_read, calls, cb_rets, vol_used, prev_kind, prev_ret>>

\* lines 134-139: read_wav_header || is_valid_wav_header
PlayHeader ==
    /\ pc = "header" /\ fn = "play"
    /\ LET r  == read_wav_header(file, pos, header)
           st == Bump("hdr_reads")
       IN  /\ pos' = pos + r.n
           /\ header' = r.header
           /\ IF HeaderRejected(r)
              THEN Finish(ESP_FAIL, IF r.ok THEN "invalid" ELSE "short",
                          Fclose(st), "closed")
              ELSE /\ pc' = "malloc"
                   /\ stats' = st
                   /\ UNCHANGED <<ret, exit, fp, buffer, processed_buffer>>
    /\ UNCHANGED <<probe, buffer_reads, current_volume, volume_ret, fn, file, write_cb, buffer_ptr,
                   processed_ptr, bytes_read, calls, cb_rets, vol_used, prev_kind, prev_ret>>

\* PlayMalloc returning on a failed allocation without freeing the block
\* that was obtained
PlayMallocLeak(b_ok, p_ok) ==
    /\ pc = "malloc"
    /\ LET st == [stats EXCEPT !.mallocs = @ + 2]
       IN  IF ~b_ok \/ ~p_ok
           THEN /\ buffer_ptr' = IF b_ok THEN "live" ELSE "NULL"
                /\ processed_ptr' = IF p_ok THEN "live" ELSE "NULL"
                /\ Finish(ESP_FAIL, "alloc", Fclose(st), "closed")
           ELSE /\ buffer_ptr' = "live"
                /\ processed_ptr' = "live"
                /\ buffer' = Uninitialised
                /\ processed_buffer' = Uninitialised
                /\ ret' = ESP_OK
                /\ stats' = st
                /\ pc' = "fread"
                /\ UNCHANGED <<exit, fp>>
    /\ UNCHANGED <<probe, buffer_reads, current_volume, volume_ret, fn, file, write_cb, pos, header,
                   bytes_read, calls, cb_rets, vol_used, prev_kind, prev_ret>>

\* lines 141-152: the two malloc calls; b_ok, p_ok say which succeed.  The
\* fresh blocks are uninitialised.
PlayMalloc(b_ok, p_ok) ==
    /\ pc = "malloc"
    /\ LET st == [stats EXCEPT !.mallocs = @ + 2]
       IN  IF ~b_ok \/ ~p_ok
           THEN /\ buffer_ptr' = IF b_ok THEN "freed" ELSE "NULL"
                /\ processed_ptr' = IF p_ok THEN "freed" ELSE "NULL"
                /\ Finish(ESP_FAIL, "alloc",
                          Fclose(Free(Free(st, "frees_buffer", b_ok),
                                      "frees_processed", p_ok)),
                          "closed")
           ELSE /\ buffer_ptr' = "live"
                /\ processed_ptr' = "live"
                /\ buffer' = Uninitialised
                /\ processed_buffer' = Uninitialised
                /\ ret' = ESP_OK
                /\ stats' = st
                /\ pc' = "fread"
                /\ UNCHANGED <<exit, fp>>
    /\ UNCHANGED <<probe, buffer_reads, current_volume, volume_ret, fn, file, write_cb, pos, header,
                   bytes_read, calls, cb_rets, vol_used, prev_kind, prev_ret>>

\* PlayFread as the condition of a do-while: the first chunk is processed
\* before its length is looked at
PlayFreadDoWhile ==
    /\ pc = "fread"
    /\ LET n == FreadCount(file, pos, BUFFER_SIZE)
       IN  /\ bytes_read' = n
           /\ buffer' = FreadInto(buffer, file, pos, n)
           /\ pos' = pos + n
           /\ pc' = IF n > 0 \/ calls = <<>> THEN "process" ELSE "cleanup"
    /\ stats' = Bump("data_reads")
    /\ UNCHANGED <<probe, buffer_reads, current_volume, volume_ret, fn, file, write_cb, fp,
                   header, buffer_ptr, processed_ptr, processed_buffer, ret,
                   exit, calls, cb_rets, vol_used, prev_kind, prev_ret>>

\* line 154: the fread of the loop condition
PlayFread ==
    /\ pc = "fread"
    /\ LET n == FreadCount(file, pos, BUFFER_SIZE)
       IN  /\ bytes_read' = n
           /\ buffer' = FreadInto(buffer, file, pos, n)
           /\ pos' = pos + n
           /\ pc' = IF n > 0 THEN "process" ELSE "cleanup"
    /\ stats' = Bump("data_reads")
    /\ UNCHANGED <<probe, buffer_reads, current_volume, volume_ret, fn, file, write_cb, fp, header,
                   buffer_ptr, processed_ptr, processed_buffer, ret, exit,
                   calls, cb_rets, vol_used, prev_kind, prev_ret>>

\* PlayProcess scaling with a level latched earlier instead of reading
\* current_volume
PlayProcessLatched(loop_kept) ==
    /\ pc = "process"
    /\ buffer_reads' = TransformReads(header, bytes_read, loop_kept)
    /\ processed_buffer' =
           Transform(header, buffer, processed_buffer, bytes_read, vol_used)
    /\ calls' = Append(calls, [off |-> pos - bytes_read, len |-> bytes_read])
    /\ pc' = "write_cb"
    /\ UNCHANGED <<probe, current_volume, volume_ret, fn, file, write_cb, fp,
                   pos, header, buffer_ptr, processed_ptr, buffer, bytes_read,
                   ret, exit, stats, cb_rets, vol_used, prev_kind, prev_ret>>

\* PlayProcess handing the sink the buffer capacity instead of bytes_read
PlayProcessFullSize(loop_kept) ==
    /\ pc = "process"
    /\ buffer_reads' = TransformReads(header, bytes_read, loop_kept)
    /\ processed_buffer' =
           Transform(header, buffer, processed_buffer, bytes_read, current_volume)
    /\ vol_used' = current_volume
    /\ calls' = Append(calls, [off |-> pos - bytes_read, len |-> BUFFER_SIZE])
    /\ pc' = "write_cb"
    /\ UNCHANGED <<probe, current_volume, volume_ret, fn, file, write_cb, fp, pos,
                   header, buffer_ptr, processed_ptr, buffer, bytes_read, ret,
                   exit, stats, cb_rets, prev_kind, prev_ret>>

\* lines 155-174: the transform, then write_cb is entered with
\* (processed_buffer, bytes_read)
PlayProcess(loop_kept) ==
    /\ pc = "process"
    /\ buffer_reads' = TransformReads(header, bytes_read, loop_kept)
    /\ processed_buffer' =
           Transform(header, buffer, processed_buffer, bytes_read, current_volume)
    /\ vol_used' = current_volume
    /\ calls' = Append(calls, [off |-> pos - bytes_read, len |-> bytes_read])
    /\ pc' = "write_cb"
    /\ UNCHANGED <<probe, current_volume, volume_ret, fn, file, write_cb, fp, pos,
                   header, buffer_ptr, processed_ptr, buffer, bytes_read, ret,
                   exit, stats, cb_rets, prev_kind, prev_ret>>

\* PlayCallbackReturn with the break of line 177 left out
PlayCallbackReturnNoBreak(r) ==
    /\ pc = "write_cb"
    /\ ret' = r
    /\ cb_rets' = Append(cb_rets, r)
    /\ pc' = "fread"
    /\ buffer_reads' = {}
    /\ UNCHANGED <<probe, current_volume, volume_ret, fn, file, write_cb, fp, pos,
                   header, buffer_ptr, processed_ptr, buffer, processed_buffer,
                   bytes_read, exit, stats, calls, vol_used, prev_kind,
                   prev_ret>>

\* lines 174-178: write_cb returns r
PlayCallbackReturn(r) ==
    /\ pc = "write_cb"
    /\ ret' = r
    /\ cb_rets' = Append(cb_rets, r)
    /\ pc' = IF r # ESP_OK THEN "cleanup" ELSE "fread"
    /\ buffer_reads' = {}
    /\ UNCHANGED <<probe, current_volume, volume_ret, fn, file, write_cb, fp, pos,
                   header, buffer_ptr, processed_ptr, buffer, processed_buffer,
                   bytes_read, exit, stats, calls, vol_used, prev_kind,
                   prev_ret>>

\* lines 181-184
PlayCleanup ==
    /\ pc = "cleanup"
    /\ buffer_ptr' = "freed"
    /\ processed_ptr' = "freed"
    /\ Finish(ret, IF ret = ESP_OK THEN "eof" ELSE "sink",
              Fclose(Free(Free(stats, "frees_processed", TRUE),
                          "frees_buffer", TRUE)),
              "closed")
    /\ UNCHANGED <<probe, buffer_reads, current_volume, volume_ret, fn, file, write_cb, pos, header,
                   bytes_read, calls, cb_rets, vol_used, prev_kind, prev_ret>>

\* wav_player_get_info, lines 111-116
GetInfo(f) ==
    /\ pc = "idle"
    /\ fn' = "info"
    /\ file' = f
    /\ IF ~f.exists
       THEN Finish(ESP_FAIL, "open", stats, fp)
       ELSE /\ pc' = "header"
            /\ fp' = "open"
            /\ stats' = Bump("fopens")
            /\ UNCHANGED <<ret, exit, buffer, processed_buffer>>
    /\ UNCHANGED <<probe, buffer_reads, current_volume, volume_ret, write_cb, pos, header,
                   buffer_ptr, processed_ptr, bytes_read, calls, cb_rets,
                   vol_used, prev_kind, prev_ret>>

\* InfoHeader rejecting a header the validator rejects, as play_file does
InfoHeaderValidating ==
    /\ pc = "header" /\ fn = "info"
    /\ LET r == read_wav_header(file, pos, header)
       IN  /\ pos' = pos + r.n
           /\ header' = r.header
           /\ Finish(IF HeaderRejected(r) THEN ESP_FAIL ELSE ESP_OK,
                     IF r.ok THEN "info" ELSE "short",
                     Fclose(Bump("hdr_reads")),
                     "closed")
    /\ UNCHANGED <<probe, buffer_reads, current_volume, volume_ret, fn, file, write_cb, buffer_ptr,
                   processed_ptr, bytes_read, calls, cb_rets, vol_used,
                   prev_kind, prev_ret>>

\* lines 118-120
InfoHeader ==
    /\ pc = "header" /\ fn = "info"
    /\ LET r == read_wav_header(file, pos, header)
       IN  /\ pos' = pos + r.n
           /\ header' = r.header
           /\ Finish(IF r.ok THEN ESP_OK ELSE ESP_FAIL,
                     IF r.ok THEN "info" ELSE "short",
                     Fclose(Bump("hdr_reads")),
                     "closed")
    /\ UNCHANGED <<probe, buffer_reads, current_volume, volume_ret, fn, file, write_cb, buffer_ptr,
                   processed_ptr, bytes_read, calls, cb_rets, vol_used, prev_kind, prev_ret>>

\* the caller takes the result; the next call starts from a fresh frame
Return ==
    /\ pc = "done"
    /\ pc' = "idle"
    /\ fn' = "none"
    /\ file' = NoFile
    /\ write_cb' = "NULL"
    /\ fp' = "none"
    /\ pos' = 0
    /\ header' = ZeroHeader
    /\ buffer_ptr' = "unset"
    /\ processed_ptr' = "unset"
    /\ bytes_read' = 0
    /\ ret' = ESP_OK
    /\ exit' = "none"
    /\ stats' = ZeroStats
    /\ calls' = <<>>
    /\ cb_rets' = <<>>
    /\ vol_used' = DEFAULT_VOLUME
    /\ prev_kind' = IF fn = "play" THEN exit ELSE prev_kind
    /\ prev_ret' = IF fn = "play" THEN ret ELSE prev_ret
    /\ buffer_reads' = {}
    /\ UNCHANGED <<probe, current_volume, volume_ret, buffer, processed_buffer>>

\* ------------------------------------------------------------ specifications

\* arguments of the volume functions while a file is played
VolumeArgs == {0, 70, INT_MAX, INT_MIN}

Next ==
    \/ \E f \in Files, cb \in {"NULL", "sink"} : PlayFile(f, cb)
    \/ PlayHeader
    \/ \E b_ok, p_ok \in BOOLEAN : PlayMalloc(b_ok, p_ok)
    \/ PlayFread
    \/ \E loop_kept \in BOOLEAN : PlayProcess(loop_kept)
    \/ \E r \in SinkResults : PlayCallbackReturn(r)
    \/ PlayCleanup
    \/ \E f \in Files : GetInfo(f)
    \/ InfoHeader
    \/ Return
    \/ \E v \in VolumeArgs : wav_player_set_volume(v)
    \/ \E a \in VolumeArgs : wav_player_increase_volume(a)
    \/ \E a \in VolumeArgs : wav_player_decrease_volume(a)

Spec == Init /\ [][Next]_vars

\* wav_player_play_file is straight-line code around one loop: once entered,
\* each of its steps is taken, fread and malloc return, and the sink returns
\* to its caller.
PlayStep ==
    \/ PlayHeader
    \/ \E b_ok, p_ok \in BOOLEAN : PlayMalloc(b_ok, p_ok)
    \/ PlayFread
    \/ \E loop_kept \in BOOLEAN : PlayProcess(loop_kept)
    \/ \E r \in SinkResults : PlayCallbackReturn(r)
    \/ PlayCleanup

SpecLive == Init /\ [][Next]_vars /\ WF_vars(PlayStep)

\* arguments of the volume functions, across the int range
WideVolumeArgs ==
    {INT_MIN, INT_MIN + 30, -101, -5, -1, 0, 1, 80, 150,
     INT_MAX - 100, INT_MAX - 30, INT_MAX - 29, INT_MAX}

NextVolume ==
    \/ \E v \in WideVolumeArgs : wav_player_set_volume(v)
    \/ \E a \in WideVolumeArgs : wav_player_increase_volume(a)
    \/ \E a \in WideVolumeArgs : wav_player_decrease_volume(a)
    \/ wav_player_get_volume

SpecVolume == Init /\ [][NextVolume]_vars

\* ------------------------------------------------------------ direct calls

\* The functions of the file called on their own: the state starts with one
\* pending call and its arguments, and the call's action stores what the
\* function returns.
playerVars == <<current_volume, volume_ret, pc, fn, file, write_cb, fp, pos,
                header, buffer_ptr, processed_ptr, buffer, processed_buffer,
                bytes_read, ret, exit, stats, calls, cb_rets, vol_used,
                prev_kind, prev_ret, buffer_reads>>

Pending(op, args, out) == [op |-> op, in |-> args, done |-> FALSE, out |-> out]

\* headers around every limit of the four rules, with three payload sizes
RateInputs ==
    {U32Of(r) : r \in {0, 7999, 8000, 8001, 44100, 47999, 48000, 48001}}
        \cup {[hi |-> 1, lo |-> 8000], [hi |-> 32768, lo |-> 44100]}

HeaderInputs ==
    {[num_channels |-> c, sample_rate |-> r, bits_per_sample |-> b,
      data_size |-> d, block_align |-> a] :
        c \in {0, 1, 2, 3, 65535}, r \in RateInputs,
        b \in {0, 8, 16, 17, 24, 32}, a \in {0, 1, 2, 3, 4, 6, 8},
        d \in {U32Of(0), U32Of(4), [hi |-> 65535, lo |-> 65535]}}

CallValidate ==
    /\ probe.op = "validate" /\ ~probe.done
    /\ probe' = [probe EXCEPT !.done = TRUE,
                              !.out = is_valid_wav_header(probe.in)]
    /\ UNCHANGED playerVars

\* samples at the ends of the int16_t range and in between, at every volume
SampleInputs ==
    {-32768, -32767, -31500, -20000, -1000, -150, -101, -100, -7, -1, 0,
     1, 7, 99, 100, 150, 1000, 20000, 31500, 32767}

CallScale ==
    /\ probe.op = "scale" /\ ~probe.done
    /\ probe' = [probe EXCEPT !.done = TRUE,
                              !.out = apply_volume(probe.in[1], probe.in[2])]
    /\ UNCHANGED playerVars

\* 24-bit samples byte by byte
ByteInputs == {0, 1, 127, 128, 129, 255}

CallConvert ==
    /\ probe.op = "convert" /\ ~probe.done
    /\ probe' = [probe EXCEPT
                    !.done = TRUE,
                    !.out = convert_24_to_16(probe.in[1], probe.in[2],
                                             probe.in[3])]
    /\ UNCHANGED playerVars

\* a file of the given size whose byte at offset o is (k + 7 * (o + 1)) % 256
RawFile(size, k) ==
    [exists |-> TRUE, size |-> size,
     head |-> [o \in 1..(IF size < HEADER_SIZE THEN size ELSE HEADER_SIZE) |->
                  (k + 7 * o) % 256],
     seed |-> k, step |-> 7]

\* a 44-byte file whose fields all have their top bit set
TopBitFile ==
    [exists |-> TRUE, size |-> HEADER_SIZE,
     head |-> HeaderBytes(65535, [hi |-> 65535, lo |-> 65535], 32768, 65280,
                          [hi |-> 32768, lo |-> 0]),
     seed |-> 0, step |-> 0]

ParseFiles ==
    {RawFile(n, k) : n \in {0, 1, HEADER_SIZE - 1, HEADER_SIZE,
                            HEADER_SIZE + 1, HEADER_SIZE + BUFFER_SIZE},
                     k \in {0, 77, 128, 200, 249}}
        \cup {TopBitFile} \cup ShortFiles \cup BadHeaderFiles \cup ValidFiles

\* what the caller's wav_header_t holds before the call
StaleHeader ==
    [num_channels |-> 7, sample_rate |-> U32Of(7), bits_per_sample |-> 7,
     data_size |-> U32Of(7), block_align |-> 7]

CallParse ==
    /\ probe.op = "parse" /\ ~probe.done
    /\ probe' = [probe EXCEPT
                    !.done = TRUE,
                    !.out = read_wav_header(probe.in, 0, StaleHeader)]
    /\ UNCHANGED playerVars

InitCalls ==
    /\ InitPlayer
    /\ \/ probe \in {Pending("validate", h, FALSE) : h \in HeaderInputs}
       \/ probe \in {Pending("scale", <<s, v>>, 0) :
                        s \in SampleInputs, v \in MIN_VOLUME..MAX_VOLUME}
       \/ probe \in {Pending("convert", <<b0, b1, b2>>, 0) :
                        b0 \in ByteInputs, b1 \in ByteInputs, b2 \in ByteInputs}
       \/ probe \in {Pending("parse", f,
                              [ok |-> FALSE, n |-> 0, header |-> StaleHeader]) :
                        f \in ParseFiles}

NextCalls ==
    \/ CallValidate
    \/ CallScale
    \/ CallConvert
    \/ CallParse

SpecCalls == InitCalls /\ [][NextCalls]_vars

\* ------------------------------------------------------------ claims

\* what the call was given, read from its inputs rather than from its path
SinkGiven == write_cb = "sink"
OpenSucceeds == file.exists /\ (fn = "info" \/ (fn = "play" /\ SinkGiven))
HeaderShort == file.exists /\ file.size < HEADER_SIZE
ParsedFromFile == read_wav_header(file, 0, ZeroHeader).header
HeaderInvalid ==
    file.exists /\ file.size >= HEADER_SIZE /\ ~is_valid_wav_header(ParsedFromFile)
AllocFailed == buffer_ptr = "NULL" \/ processed_ptr = "NULL"

\* C1: on every exit path of play_file and get_info the source is closed
\* exactly once when the open succeeded and never when it failed (or was not
\* attempted); it is never closed twice and never left open on return.
C1_SourceClosedOnce ==
    /\ stats.fopens <= 1
    /\ stats.fcloses <= stats.fopens
    /\ pc = "done" =>
          /\ stats.fopens = (IF OpenSucceeds THEN 1 ELSE 0)
          /\ stats.fcloses = stats.fopens
          /\ fp # "open"

C1_Witness ==
    /\ pc = "done" /\ fn = "play" /\ exit = "sink"
    /\ stats.fopens = 1 /\ stats.fcloses = 1 /\ fp = "closed"

\* C2: when the sink fails on its k-th invocation it has been invoked exactly
\* k times, no read follows the failing invocation (k payload reads in all),
\* and play_file returns exactly the value the sink returned.
C2_SinkFailureStops ==
    \A k \in 1..Len(cb_rets) :
        cb_rets[k] # ESP_OK =>
            /\ k = Len(cb_rets)
            /\ Len(calls) = k
            /\ stats.data_reads = k
            /\ pc \in {"cleanup", "done"}
            /\ ret = cb_rets[k]

C2_Witness ==
    /\ pc = "done" /\ Len(cb_rets) = 2
    /\ cb_rets[1] = ESP_OK /\ cb_rets[2] = ESP_ERR_TIMEOUT
    /\ ret = ESP_ERR_TIMEOUT /\ stats.data_reads = 2
    /\ file.size > HEADER_SIZE + 2 * BUFFER_SIZE

\* C3: play_file with a NULL sink returns ESP_ERR_INVALID_ARG without
\* opening, reading or allocating, whether or not the file exists.
C3_NullSinkRejected ==
    (fn = "play" /\ write_cb = "NULL") =>
        /\ pc = "done"
        /\ ret = ESP_ERR_INVALID_ARG
        /\ stats = ZeroStats
        /\ fp = "none" /\ pos = 0
        /\ buffer_ptr = "unset" /\ processed_ptr = "unset"
        /\ calls = <<>>

C3_Witness ==
    /\ fn = "play" /\ write_cb = "NULL" /\ pc = "done"
    /\ file.exists /\ file.size > HEADER_SIZE
    /\ ret = ESP_ERR_INVALID_ARG

\* C4: in play_file a header that is short or fails validation means the
\* sink is never invoked, no payload is read and the call fails; the sink is
\* only ever invoked after a header has passed validation.
C4_NoPlaybackOfBadHeader ==
    /\ (fn = "play" /\ SinkGiven /\ (HeaderShort \/ HeaderInvalid)) =>
          /\ calls = <<>>
          /\ stats.data_reads = 0
          /\ pos <= HEADER_SIZE
          /\ pc \in {"header", "done"}
          /\ pc = "done" => ret # ESP_OK
    /\ calls # <<>> =>
          /\ file.size >= HEADER_SIZE
          /\ header = ParsedFromFile
          /\ is_valid_wav_header(header)

C4_Witness ==
    /\ fn = "play" /\ pc = "done" /\ HeaderInvalid /\ SinkGiven
    /\ file.size > HEADER_SIZE /\ ret = ESP_FAIL /\ calls = <<>>

RECURSIVE SumLen(_)
SumLen(cs) == IF cs = <<>> THEN 0 ELSE Head(cs).len + SumLen(Tail(cs))

\* C5: the sink is invoked once per non-empty chunk read, in stream order
\* from offset 44 with no gap and no repeat, each time with the number of
\* bytes of that read (1..1024); on success the lengths sum to the payload.
C5_ChunksInOrder ==
    /\ \A i \in 1..Len(calls) :
          /\ calls[i].len \in 1..BUFFER_SIZE
          /\ calls[i].off = IF i = 1 THEN HEADER_SIZE
                            ELSE calls[i - 1].off + calls[i - 1].len
          /\ calls[i].len = IF file.size - calls[i].off >= BUFFER_SIZE
                            THEN BUFFER_SIZE ELSE file.size - calls[i].off
    /\ stats.data_reads =
          Len(calls) + (IF pc = "process" \/ exit = "eof" THEN 1 ELSE 0)
              + (IF pc = "cleanup" /\ ret = ESP_OK THEN 1 ELSE 0)
    /\ (pc = "done" /\ fn = "play" /\ ret = ESP_OK) =>
          SumLen(calls) = file.size - HEADER_SIZE

C5_Witness ==
    /\ pc = "done" /\ fn = "play" /\ ret = ESP_OK
    /\ Len(calls) = 3 /\ calls[3].len = 1 /\ calls[3].off = HEADER_SIZE + 2 * BUFFER_SIZE

\* C6: the volume starts at 30 and is in 0..100 in every reachable state,
\* whatever arguments set, increase and decrease were given; get_volume
\* returns a value in 0..100.
C6_VolumeInRange ==
    /\ current_volume = DEFAULT_VOLUME
    /\ [](/\ current_volume \in MIN_VOLUME..MAX_VOLUME
          /\ volume_ret # NoValue => volume_ret \in MIN_VOLUME..MAX_VOLUME)

C6_Witness == current_volume = MAX_VOLUME /\ volume_ret = MIN_VOLUME

\* min(100, max(0, v + amount)) and min(100, max(0, v - amount)) over the
\* unbounded integers, for v in 0..100
ClampedSum(v, amount) ==
    IF amount >= MAX_VOLUME - v THEN MAX_VOLUME
    ELSE IF amount <= MIN_VOLUME - v THEN MIN_VOLUME ELSE v + amount
ClampedDifference(v, amount) ==
    IF amount <= v - MAX_VOLUME THEN MAX_VOLUME
    ELSE IF amount >= v - MIN_VOLUME THEN MIN_VOLUME ELSE v - amount

\* C7: increase_volume(amount) leaves min(100, max(0, v + amount)) and
\* decrease_volume(amount) leaves min(100, max(0, v - amount)), the sums
\* taken over the unbounded integers, for every int amount.
C7_ClampAbsorbsOverflow ==
    [][\A a \in WideVolumeArgs :
          /\ wav_player_increase_volume(a) =>
                current_volume' = ClampedSum(current_volume, a)
          /\ wav_player_decrease_volume(a) =>
                current_volume' = ClampedDifference(current_volume, a)]_vars

\* the failures of play_file that return before the first chunk
EarlyFailures == {"arg", "open", "short", "invalid", "alloc"}

\* C8 as stated: two play_file calls that failed in different ways returned
\* different values.
C8_FailuresDistinguishable ==
    (pc = "done" /\ fn = "play" /\ exit \in EarlyFailures
        /\ prev_kind \in EarlyFailures /\ exit # prev_kind)
    => ret # prev_ret

\* the return statement taken is the one the inputs call for
ExitMatchesInputs ==
    /\ (exit = "arg") = ~SinkGiven
    /\ (exit = "open") = (SinkGiven /\ ~file.exists)
    /\ (exit = "short") = (SinkGiven /\ HeaderShort)
    /\ (exit = "invalid") = (SinkGiven /\ HeaderInvalid)
    /\ (exit = "alloc") = AllocFailed

\* C8 amended: every failure of play_file returns a value other than ESP_OK;
\* a NULL sink returns ESP_ERR_INVALID_ARG, and an open failure, a short
\* header, a rejected header and an allocation failure all return the one
\* value ESP_FAIL, which differs from the argument error.
C8_TwoErrorValues ==
    (pc = "done" /\ fn = "play") =>
        /\ ExitMatchesInputs
        /\ exit = "arg" => ret = ESP_ERR_INVALID_ARG
        /\ exit \in EarlyFailures \ {"arg"} => ret = ESP_FAIL
        /\ exit # "eof" => ret # ESP_OK
        /\ (exit \in EarlyFailures /\ prev_kind \in EarlyFailures) =>
              (ret = prev_ret) = ((exit = "arg") = (prev_kind = "arg"))

C8_Witness ==
    /\ pc = "done" /\ fn = "play" /\ exit = "alloc" /\ prev_kind = "short"
    /\ ret = prev_ret

\* C9: get_info opens, reads the header once and closes: a source shorter
\* than 44 bytes fails after that one read, a source of 44 bytes or more
\* succeeds with the transcribed fields even when the validator would reject
\* them; no payload byte is read and no sink is invoked.
C9_GetInfoReadsHeaderOnly ==
    fn = "info" =>
        /\ calls = <<>> /\ cb_rets = <<>>
        /\ stats.data_reads = 0 /\ stats.mallocs = 0
        /\ stats.hdr_reads <= 1
        /\ pos <= HEADER_SIZE
        /\ pc \in {"header", "done"}
        /\ (pc = "done" /\ file.exists) =>
              /\ stats.hdr_reads = 1
              /\ IF file.size < HEADER_SIZE
                 THEN ret = ESP_FAIL /\ header = ZeroHeader
                 ELSE /\ ret = ESP_OK
                      /\ pos = HEADER_SIZE
                      /\ header.num_channels = file.head[23] + 256 * file.head[24]
                      /\ header.sample_rate =
                            U32(file.head[25], file.head[26], file.head[27], file.head[28])
                      /\ header.block_align = file.head[33] + 256 * file.head[34]
                      /\ header.bits_per_sample = file.head[35] + 256 * file.head[36]
                      /\ header.data_size =
                            U32(file.head[41], file.head[42], file.head[43], file.head[44])

C9_Witness ==
    /\ fn = "info" /\ pc = "done" /\ ret = ESP_OK
    /\ ~is_valid_wav_header(header) /\ header.num_channels = 3
    /\ file.size > HEADER_SIZE /\ pos = HEADER_SIZE

\* C10: with a validated 16-bit header and the volume at 0, every one of the
\* bytes handed to the sink is zero and their number is the chunk's length.
C10_SilenceAtVolumeZero ==
    (pc = "write_cb" /\ header.bits_per_sample = 16 /\ vol_used = 0) =>
        /\ calls[Len(calls)].len = bytes_read
        /\ \A i \in 0..(calls[Len(calls)].len - 1) : processed_buffer[i] = 0

\* C11: with a validated 24-bit header the bytes handed to the sink are the
\* volume-adjusted 16-bit samples of the chunk just read: sample j of the
\* output is apply_volume(convert_24_to_16(input sample j)), and at volume 0
\* every delivered byte is zero.
C11_Delivered24IsScaledInput ==
    (pc = "write_cb" /\ header.bits_per_sample = 24) =>
        /\ \A j \in 0..((bytes_read \div 3) - 1) :
              LET s == FromInt16(apply_volume(
                           convert_24_to_16(buffer[3 * j], buffer[3 * j + 1],
                                            buffer[3 * j + 2]),
                           vol_used))
              IN  /\ processed_buffer[2 * j] = s % 256
                  /\ processed_buffer[2 * j + 1] = s \div 256
        /\ vol_used = 0 =>
              \A i \in 0..(bytes_read - 1) : processed_buffer[i] = 0

\* C12: is_valid_wav_header accepts exactly the headers with 1 or 2 channels,
\* 16 or 24 bits per sample, a rate of 8000..48000 Hz and a block align of
\* channels * (bits / 8); data_size has no part in the outcome.
C12_ValidIffFourRules ==
    (probe.op = "validate" /\ probe.done) =>
        LET h == probe.in
            channels_ok == h.num_channels \in {1, 2}
            bits_ok     == h.bits_per_sample \in {16, 24}
            rate_ok     == /\ h.sample_rate.hi = 0
                           /\ h.sample_rate.lo >= 8000
                           /\ h.sample_rate.lo <= 48000
            align_ok    == h.block_align
                               = h.num_channels * (h.bits_per_sample \div 8)
        IN  /\ probe.out = (channels_ok /\ bits_ok /\ rate_ok /\ align_ok)
            /\ \A d \in {U32Of(0), [hi |-> 32768, lo |-> 1]} :
                   is_valid_wav_header([h EXCEPT !.data_size = d]) = probe.out

\* an accepted header whose data_size is 0xFFFFFFFF
C12_Witness ==
    /\ probe.op = "validate" /\ probe.done /\ probe.out
    /\ probe.in.data_size.hi = 65535
    /\ probe.in.bits_per_sample = 24

\* s * v / 100 rounded toward zero
ExactScale(sample, volume) ==
    IF sample < 0 THEN -(((-sample) * volume) \div 100)
                  ELSE (sample * volume) \div 100

Abs(x) == IF x < 0 THEN -x ELSE x

\* C16 as stated: apply_volume(s, v) is s * v / 100 rounded toward zero for
\* every 16-bit s and every v in 0..100.
C16_ScaledExactly ==
    (probe.op = "scale" /\ probe.done) =>
        probe.out = ExactScale(probe.in[1], probe.in[2])

\* C16 amended: apply_volume(s, v) is s * v / 100 rounded toward zero or the
\* value one closer to zero (v / 100 is a rounded single-precision number);
\* at volume 100 it is s, at volume 0 it is 0, and it never exceeds s in
\* magnitude nor has the opposite sign.
C16_ScaledWithinOne ==
    (probe.op = "scale" /\ probe.done) =>
        LET s == probe.in[1]
            v == probe.in[2]
            e == ExactScale(s, v)
        IN  /\ Abs(e) - Abs(probe.out) \in {0, 1}
            /\ v = MAX_VOLUME => probe.out = s
            /\ v = MIN_VOLUME => probe.out = 0
            /\ Abs(probe.out) <= Abs(s)
            /\ (s >= 0 => probe.out >= 0) /\ (s <= 0 => probe.out <= 0)

\* 150 at volume 42: 63 exactly, 62 from the code
C16_Witness ==
    /\ probe.op = "scale" /\ probe.done
    /\ probe.in = <<150, 42>>
    /\ ExactScale(150, 42) = 63
    /\ probe.out = 62

\* C17: convert_24_to_16(b0, b1, b2) is floor(S / 256) for the signed 24-bit
\* value S of the three little-endian bytes: negative exactly when bit 23 is
\* set, equal to the signed 16-bit value of (b1, b2), and -32768 for
\* 0x01 0x00 0x80.
C17_ConvertIsFloorDiv256 ==
    (probe.op = "convert" /\ probe.done) =>
        LET b0 == probe.in[1]
            b1 == probe.in[2]
            b2 == probe.in[3]
            S  == b0 + 256 * b1 + 65536 * b2
                      - (IF b2 >= 128 THEN 16777216 ELSE 0)
            floor == IF S >= 0 THEN S \div 256 ELSE -((255 - S) \div 256)
        IN  /\ probe.out = floor
            /\ (probe.out < 0) <=> (b2 >= 128)
            /\ probe.out = ToInt16(b1 + 256 * b2)
            /\ probe.in = <<1, 0, 128>> => probe.out = -32768

C17_Witness ==
    /\ probe.op = "convert" /\ probe.done
    /\ probe.in = <<1, 0, 128>>
    /\ probe.out = -32768

\* C18: read_wav_header copies the little-endian fields at offsets 22, 24, 32,
\* 34 and 40 of the 44 bytes it consumes, also when their top bit is set, and
\* fails, storing nothing, when fewer than 44 bytes are there.
C18_HeaderTranscribed ==
    (probe.op = "parse" /\ probe.done) =>
        LET f == probe.in
            r == probe.out
            B(o) == f.head[o + 1]
        IN  IF f.size >= 44
            THEN /\ r.ok /\ r.n = 44
                 /\ r.header.num_channels = B(22) + 256 * B(23)
                 /\ r.header.sample_rate.lo = B(24) + 256 * B(25)
                 /\ r.header.sample_rate.hi = B(26) + 256 * B(27)
                 /\ r.header.block_align = B(32) + 256 * B(33)
                 /\ r.header.bits_per_sample = B(34) + 256 * B(35)
                 /\ r.header.data_size.lo = B(40) + 256 * B(41)
                 /\ r.header.data_size.hi = B(42) + 256 * B(43)
            ELSE ~r.ok /\ r.n = f.size /\ r.header = StaleHeader

\* a header whose sample_rate and data_size have their top bit set
C18_Witness ==
    /\ probe.op = "parse" /\ probe.done /\ probe.out.ok
    /\ probe.out.header.sample_rate.hi >= 32768
    /\ probe.out.header.data_size.hi >= 32768
    /\ probe.out.header.block_align # probe.out.header.bits_per_sample

\* C13: a play_file call that entered its read loop (valid header, both
\* buffers allocated) reaches its return; when the sink returned ESP_OK every
\* time the loop ended at the first fread that returned zero bytes, the call
\* returned ESP_OK, and a file with an empty payload never invoked the sink.
C13_PlayTerminates ==
    /\ [](( /\ fn = "play" /\ pc = "done"
            /\ SinkGiven /\ file.exists /\ ~HeaderShort /\ ~HeaderInvalid
            /\ ~AllocFailed
            /\ \A i \in 1..Len(cb_rets) : cb_rets[i] = ESP_OK )
          => /\ ret = ESP_OK /\ exit = "eof"
             /\ bytes_read = 0
             /\ stats.data_reads = Len(calls) + 1
             /\ \A i \in 1..Len(calls) : calls[i].len > 0
             /\ SumLen(calls) = file.size - HEADER_SIZE
             /\ file.size = HEADER_SIZE => calls = <<>>)
    /\ (fn = "play" /\ pc = "fread") ~> (pc = "done")

\* a valid file with an empty payload played to its end
C13_Witness ==
    /\ fn = "play" /\ pc = "done" /\ exit = "eof" /\ ret = ESP_OK
    /\ file.size = HEADER_SIZE
    /\ stats.data_reads = 1
    /\ calls = <<>>

\* C14: every block play_file obtained from malloc is freed exactly once
\* before it returns, on every exit path; when an allocation fails the block
\* that was obtained (if any) is freed, the file is closed, the sink is never
\* invoked, no payload is read and ESP_FAIL is returned.
C14_BuffersFreedOnce ==
    /\ stats.frees_buffer <= 1 /\ stats.frees_processed <= 1
    /\ pc \in {"fread", "process", "write_cb", "cleanup"} =>
           /\ buffer_ptr = "live" /\ processed_ptr = "live"
           /\ stats.frees_buffer = 0 /\ stats.frees_processed = 0
    /\ (fn = "play" /\ pc = "done") =>
           /\ buffer_ptr # "live" /\ processed_ptr # "live"
           /\ stats.frees_buffer = (IF buffer_ptr = "freed" THEN 1 ELSE 0)
           /\ stats.frees_processed = (IF processed_ptr = "freed" THEN 1 ELSE 0)
           /\ stats.mallocs = 2 =>
                  /\ buffer_ptr \in {"freed", "NULL"}
                  /\ processed_ptr \in {"freed", "NULL"}
    /\ AllocFailed =>
           /\ pc = "done" /\ exit = "alloc" /\ ret = ESP_FAIL
           /\ stats.fcloses = 1 /\ fp = "closed"
           /\ calls = <<>>
           /\ stats.data_reads = 0 /\ pos = HEADER_SIZE

\* the first malloc succeeded, the second failed
C14_Witness ==
    /\ pc = "done" /\ exit = "alloc"
    /\ buffer_ptr = "freed" /\ processed_ptr = "NULL"
    /\ stats.frees_buffer = 1 /\ stats.frees_processed = 0

\* C15: in the 24-bit path every index of the input buffer read while a
\* sample is formed is below bytes_read and inside the BUFFER_SIZE block, for
\* every chunk length, also one that is no multiple of 3.
C15_Reads24WithinChunk ==
    (pc = "write_cb" /\ header.bits_per_sample = 24) =>
        \A i \in buffer_reads : i < bytes_read /\ i < BUFFER_SIZE

\* C19: the volume is read when a chunk is transformed, not latched: the
\* chunk is scaled with the level current at that moment (so a change made
\* inside the sink callback of chunk k applies from chunk k+1 on), the chunk
\* already handed to the sink is not altered by a volume call made during the
\* callback, and no step of play_file or get_info changes the volume.
C19_VolumeReadPerChunk ==
    [][ /\ pc' # pc => current_volume' = current_volume
        /\ (pc = "process" /\ pc' = "write_cb") =>
               /\ vol_used' = current_volume
               /\ header.bits_per_sample = 16 =>
                      \A j \in 0..((bytes_read \div 2) - 1) :
                          processed_buffer'[2 * j]
                                  + 256 * processed_buffer'[2 * j + 1]
                              = FromInt16(apply_volume(
                                    ToInt16(buffer[2 * j]
                                                + 256 * buffer[2 * j + 1]),
                                    current_volume))
        /\ (pc = "write_cb" /\ pc' = "write_cb") =>
               /\ processed_buffer' = processed_buffer
               /\ vol_used' = vol_used
               /\ calls' = calls
      ]_vars

\* a 16-bit file of 1024 + 3 bytes: the first chunk went out at volume 0 (its
\* bytes from index 2 on are still in the block, all zero), the volume was
\* raised inside its callback, and the one sample of the second chunk went
\* out at volume 100
C19_Witness ==
    /\ pc = "write_cb" /\ header.bits_per_sample = 16
    /\ Len(calls) = 2 /\ bytes_read = 3
    /\ vol_used = MAX_VOLUME
    /\ processed_buffer[0] = buffer[0] /\ processed_buffer[1] = buffer[1]
    /\ buffer[0] + buffer[1] > 0
    /\ \A i \in 2..(BUFFER_SIZE - 1) : processed_buffer[i] = 0
    /\ \E i \in 2..(BUFFER_SIZE - 1) : buffer[i] > 1

====
